---- MODULE Spec2Model ----
(***************************************************************************)
(* A model of combiner.py: the path filter (should_skip_path,              *)
(* should_skip_file, is_included_file), the flat scan (scan_directory),    *)
(* the tree renderer (generate_tree), the combiner (combine_files) and the *)
(* pipeline of main() over a small file system.                            *)
(*                                                                         *)
(* A Python str is a sequence of code points, so that str.split,           *)
(* str.endswith, str.rsplit and the ordering of sorted() are computed      *)
(* character by character as Python computes them.                         *)
(***************************************************************************)
EXTENDS Integers, Sequences, FiniteSets, TLC

(* ------------------------------ strings ------------------------------- *)

s_cwd == <<47, 119>>  \* "/w"
s_proj == <<112, 114, 111, 106>>  \* "proj"
s_venv_proj == <<118, 101, 110, 118, 47, 112, 114, 111, 106>>  \* "venv/proj"
s_nope == <<110, 111, 112, 101>>  \* "nope"
s_a_py == <<97, 46, 112, 121>>  \* "a.py"
s_ab_py == <<97, 98, 46, 112, 121>>  \* "ab.py"
s_b_txt == <<98, 46, 116, 120, 116>>  \* "b.txt"
s_c_py == <<99, 46, 112, 121>>  \* "c.py"
s_x_py == <<120, 46, 112, 121>>  \* "x.py"
s_ignored_py == <<105, 103, 110, 111, 114, 101, 100, 46, 112, 121>>  \* "ignored.py"
s_a == <<97>>  \* "a"
s_sub == <<115, 117, 98>>  \* "sub"
s_venv == <<118, 101, 110, 118>>  \* "venv"
s_pycache == <<95, 95, 112, 121, 99, 97, 99, 104, 101, 95, 95>>  \* "__pycache__"
s_resources == <<114, 101, 115, 111, 117, 114, 99, 101, 115>>  \* "resources"
s_git == <<46, 103, 105, 116>>  \* ".git"
s_gitignore == <<46, 103, 105, 116, 105, 103, 110, 111, 114, 101>>  \* ".gitignore"
s_dot_py == <<46, 112, 121>>  \* ".py"
s_dot == <<46>>  \* "."
s_out_txt == <<111, 117, 116, 46, 116, 120, 116>>  \* "out.txt"
s_proj_out_txt == <<112, 114, 111, 106, 47, 111, 117, 116, 46, 116, 120, 116>>  \* "proj/out.txt"
s_od_out == <<111, 46, 100, 47, 111, 117, 116>>  \* "o.d/out"
s_tree_txt == <<95, 116, 114, 101, 101, 46, 116, 120, 116>>  \* "_tree.txt"

\* os.sep on the platform of the model: "/"
os_sep == 47

\* the width of a banner line: "#" * 80
BannerWidth == 80

\* the largest number of files the project directory holds at the start
MaxFiles == 3

Min(a, b) == IF a < b THEN a ELSE b

\* the indexes of s that hold the character c
Positions(s, c) == {i \in 1..Len(s) : s[i] = c}

SetMin(S) == CHOOSE x \in S : \A y \in S : x <= y

SetMax(S) == CHOOSE x \in S : \A y \in S : y <= x

\* s[i:] of Python, for a 1-based i
From(s, i) == SubSeq(s, i, Len(s))

\* str.startswith
startswith(s, p) == Len(p) <= Len(s) /\ SubSeq(s, 1, Len(p)) = p

\* str.endswith
endswith(s, e) == Len(e) <= Len(s) /\ SubSeq(s, Len(s) - Len(e) + 1, Len(s)) = e

\* the order of Python on str: by code point, a proper prefix first
str_lt(a, b) ==
    LET n == Min(Len(a), Len(b))
        d == {i \in 1..n : a[i] # b[i]}
    IN  IF d = {} THEN Len(a) < Len(b) ELSE a[SetMin(d)] < b[SetMin(d)]

\* str.split(sep): the pieces between the separators, empty pieces kept
RECURSIVE split(_, _)
split(s, c) ==
    IF Positions(s, c) = {} THEN <<s>>
    ELSE LET i == SetMin(Positions(s, c))
         IN  <<SubSeq(s, 1, i - 1)>> \o split(From(s, i + 1), c)

\* str.rsplit(sep, 1)[0]: what precedes the last separator, or all of s
rsplit1_head(s, c) ==
    IF Positions(s, c) = {} THEN s ELSE SubSeq(s, 1, SetMax(Positions(s, c)) - 1)

\* the elements of a sequence
Range(q) == {q[i] : i \in 1..Len(q)}

(* ------------------------------ os.path ------------------------------- *)

\* os.path.join(a, b) for a relative b
join(a, b) ==
    IF a = <<>> THEN b
    ELSE IF a[Len(a)] = os_sep THEN a \o b ELSE a \o <<os_sep>> \o b

\* os.path.basename
basename(p) ==
    IF Positions(p, os_sep) = {} THEN p ELSE From(p, SetMax(Positions(p, os_sep)) + 1)

\* os.path.dirname (of a path below the root directory)
dirname(p) ==
    IF Positions(p, os_sep) = {} THEN <<>>
    ELSE SubSeq(p, 1, SetMax(Positions(p, os_sep)) - 1)

\* os.getcwd(): the directory the run is started in
getcwd == s_cwd

\* os.path.abspath of a normalised path (no "." or ".." segment)
abspath(p) == IF p # <<>> /\ p[1] = os_sep THEN p ELSE join(getcwd, p)

\* sep.join(q[k:]) for a 1-based k
RECURSIVE sep_join(_, _)
sep_join(q, k) ==
    IF k > Len(q) THEN <<>>
    ELSE IF k = Len(q) THEN q[k]
    ELSE q[k] \o <<os_sep>> \o sep_join(q, k + 1)

\* posixpath.relpath(p, start) of absolute normalised paths, p below start:
\* the segments of p after the segments it shares with start
relpath(p, start) ==
    LET pl == split(p, os_sep)
        sl == split(start, os_sep)
        n  == Min(Len(pl), Len(sl))
        d  == {i \in 1..n : pl[i] # sl[i]}
        i  == IF d = {} THEN n + 1 ELSE SetMin(d)
    IN  IF i > Len(pl) THEN s_dot ELSE sep_join(pl, i)

(* ------------------------- the state of a run ------------------------- *)

VARIABLES
    files,            \* the file system: the absolute paths of the regular files
    denied,           \* the directories os.listdir / os.scandir may not list
    project_path,     \* main: os.path.abspath(args.project_path)
    output_file,      \* main: args.output_file
    exclude_items,    \* main: set(args.exclude)
    file_types,       \* main: set(args.file_types), or set()
    separate_tree,    \* main: args.separate_tree
    pc,               \* the statement of main the run is at
    tree_content,     \* main: the result of generate_tree
    file_paths,       \* main: the result of scan_directory
    unreadable,       \* the files whose open/read raised in combine_files
    combined_content, \* combine_files: the list joined into the result
    disk,             \* what the run wrote: absolute path -> content
    exit_status,      \* the status of sys.exit, 0 while the run goes on
    message           \* the last message of the run that reports an error

vars == <<files, denied, project_path, output_file, exclude_items, file_types,
          separate_tree, pc, tree_content, file_paths, unreadable,
          combined_content, disk, exit_status, message>>

(* --------------------------- the file system -------------------------- *)

\* the directories that exist whatever the project holds
BaseDirs == {s_cwd, join(s_cwd, s_proj), join(s_cwd, s_venv),
             join(s_cwd, s_venv_proj), join(s_cwd, <<111, 46, 100>>)}

\* the directories above a path, up to the root directory
RECURSIVE Ancestors(_)
Ancestors(p) ==
    IF dirname(p) = <<>> THEN {} ELSE {dirname(p)} \cup Ancestors(dirname(p))

\* the directories of the file system
Dirs == BaseDirs \cup UNION {Ancestors(f) : f \in files}

\* os.path.isdir
isdir(p) == p \in Dirs

\* os.path.exists
exists(p) == p \in Dirs \/ p \in files

\* os.listdir: the names of the entries of a directory
listdir(d) == {basename(p) : p \in {q \in Dirs \cup files : dirname(q) = d}}

\* os.walk(path): the directories it yields (every directory it can reach
\* from path through directories it may list; it does not prune)
walk_roots(path) ==
    {d \in Dirs : /\ d = path \/ startswith(d, path \o <<os_sep>>)
                  /\ d \notin denied
                  /\ \A a \in Ancestors(d) :
                        (a = path \/ startswith(a, path \o <<os_sep>>)) => a \notin denied}

\* os.walk(path): the `files` of the triple yielded for root
walk_files(root) == {n \in listdir(root) : ~isdir(join(root, n))}

(* ----------------------------- path filter ---------------------------- *)

\* should_skip_path as a plausible slip would have it: only the name of the
\* directory itself is looked up, not the segments above it
should_skip_path_last(path, exclude) == basename(path) \in exclude

should_skip_path(path, exclude) ==
    LET path_parts == split(path, os_sep)
    IN  \E excluded \in exclude : excluded \in Range(path_parts)

should_skip_file(filename, exclude) == filename \in exclude

is_included_file(filename, types) ==
    IF types = {} THEN TRUE ELSE \E ext \in types : endswith(filename, ext)

(* ---------------------------- scan_directory -------------------------- *)

\* the order of Python on the (abs_path, rel_path) tuples
tuple_lt(p, q) == str_lt(p[1], q[1]) \/ (p[1] = q[1] /\ str_lt(p[2], q[2]))

\* scan_directory without its sort: the tuples in the order of a top-down
\* walk, the files of a directory before those of the directories below it
RECURSIVE walk_order(_)
walk_order(S) ==
    IF S = {} THEN <<>>
    ELSE LET depth(t) == Len(split(t[2], os_sep))
             m == CHOOSE x \in S : \A y \in S \ {x} :
                     \/ depth(x) < depth(y)
                     \/ (depth(x) = depth(y) /\ str_lt(x[1], y[1]))
         IN  <<m>> \o walk_order(S \ {m})

\* sorted(file_paths); the tuples are distinct, so the order in which
\* os.walk produced them does not show in the result
RECURSIVE sorted(_)
sorted(S) ==
    IF S = {} THEN <<>>
    ELSE LET m == CHOOSE x \in S : \A y \in S \ {x} : tuple_lt(x, y)
         IN  <<m>> \o sorted(S \ {m})

scan_directory(path, exclude, types) ==
    LET kept == {root \in walk_roots(path) : ~should_skip_path(root, exclude)}
        found(root) ==
            {<<join(root, file), relpath(join(root, file), path)>> :
                file \in {f \in walk_files(root) :
                            /\ ~should_skip_file(f, exclude)
                            /\ is_included_file(f, types)}}
    IN  sorted(UNION {found(root) : root \in kept})

(* ----------------------------- generate_tree -------------------------- *)

\* sorted(entries) as sorted(entries, reverse=True) would have it
RECURSIVE sorted_entries_desc(_)
sorted_entries_desc(S) ==
    IF S = {} THEN <<>>
    ELSE LET m == CHOOSE x \in S : \A y \in S \ {x} : str_lt(y, x)
         IN  <<m>> \o sorted_entries_desc(S \ {m})

\* sorted(entries): the names of a directory in the order of Python on str
RECURSIVE sorted_entries(_)
sorted_entries(S) ==
    IF S = {} THEN <<>>
    ELSE LET m == CHOOSE x \in S : \A y \in S \ {x} : str_lt(x, y)
         IN  <<m>> \o sorted_entries(S \ {m})

\* the entries of dir_path that add_to_tree keeps
filtered_entries(dir_path, exclude, types) ==
    LET keep(entry) ==
            IF isdir(join(dir_path, entry))
            THEN ~should_skip_path(join(dir_path, entry), exclude)
            ELSE ~should_skip_file(entry, exclude) /\ is_included_file(entry, types)
    IN  SelectSeq(sorted_entries(listdir(dir_path)), keep)

\* A line of the tree is f"{prefix}{branch} {entry}"; the model keeps its
\* three parts apart, and with them `current`, the path the line is about
\* (add_to_tree's local variable), which the text of the line does not spell.
RECURSIVE add_to_tree(_, _, _, _)
RECURSIVE add_entries(_, _, _, _, _, _)
add_entries(dir_path, prefix, filtered, i, exclude, types) ==
    IF i > Len(filtered) THEN <<>>
    ELSE LET entry      == filtered[i]
             is_last    == i = Len(filtered)
             current    == join(dir_path, entry)
             line       == [prefix |-> prefix,
                            branch |-> IF is_last THEN "last" ELSE "tee",
                            entry |-> entry, current |-> current]
             new_prefix == Append(prefix, IF is_last THEN "blank" ELSE "bar")
         IN  <<line>>
             \o (IF isdir(current)
                 THEN add_to_tree(current, new_prefix, exclude, types)
                 ELSE <<>>)
             \o add_entries(dir_path, prefix, filtered, i + 1, exclude, types)

add_to_tree(dir_path, prefix, exclude, types) ==
    IF dir_path \in denied THEN <<>>
    ELSE add_entries(dir_path, prefix,
                     filtered_entries(dir_path, exclude, types), 1, exclude, types)

generate_tree(path, exclude, types) ==
    <<[title |-> path]>> \o add_to_tree(path, <<>>, exclude, types)

(* ----------------------------- combine_files -------------------------- *)

\* the nine lines that open the combined content
header_lines(path, exclude, types) ==
    << [kind |-> "text", text |-> "# Combined Project Files"],
       [kind |-> "project_path", path |-> path],
       [kind |-> "text", text |-> "# Generated by ProjectCombiner"],
       [kind |-> "text", text |-> "#"],
       [kind |-> "text", text |-> "# Excluded items (directories and files):"],
       [kind |-> "excluded", items |-> exclude],
       [kind |-> "text", text |-> "#"],
       [kind |-> "text", text |-> "# Included file types:"],
       [kind |-> "types", items |-> types] >>

\* the section that embeds the tree, each line of it behind "# "
tree_section(tree) ==
    << [kind |-> "text", text |-> "#"],
       [kind |-> "text", text |-> "# Project Structure:"],
       [kind |-> "text", text |-> "#"] >>
    \o [i \in 1..Len(tree) |-> [kind |-> "comment", line |-> tree[i]]]
    \o << [kind |-> "text", text |-> "#"],
          [kind |-> "text", text |-> "# File Contents:"],
          [kind |-> "text", text |-> "#"] >>

\* One turn of the loop as it would be with the banner and the header added
\* before the file is opened: a file that cannot be read leaves them behind
file_block_partial(abs_path, rel_path, bad) ==
    << [kind |-> "hashes", width |-> BannerWidth],
       [kind |-> "file_header", rel |-> rel_path],
       [kind |-> "hashes", width |-> BannerWidth] >>
    \o (IF abs_path \in bad THEN <<>>
        ELSE << [kind |-> "content", of |-> abs_path],
                [kind |-> "text", text |-> "\n"] >>)

\* One turn of the loop over file_paths: open and read come first, and the
\* five items are added in one extend only when they did not raise.
file_block(abs_path, rel_path, bad) ==
    IF abs_path \in bad THEN <<>>
    ELSE << [kind |-> "hashes", width |-> BannerWidth],
            [kind |-> "file_header", rel |-> rel_path],
            [kind |-> "hashes", width |-> BannerWidth],
            [kind |-> "content", of |-> abs_path],
            [kind |-> "text", text |-> "\n"] >>

RECURSIVE file_blocks(_, _, _)
file_blocks(paths, i, bad) ==
    IF i > Len(paths) THEN <<>>
    ELSE file_block(paths[i][1], paths[i][2], bad) \o file_blocks(paths, i + 1, bad)

\* combine_files; bad is the set of files that cannot be read or decoded
combine_files(paths, path, tree, exclude, types, include_tree, bad) ==
    header_lines(path, exclude, types)
    \o (IF include_tree THEN tree_section(tree) ELSE <<>>)
    \o file_blocks(paths, 1, bad)

(* --------------------------------- main ------------------------------- *)

\* the name of the separate tree file
tree_file_name(out) == rsplit1_head(out, s_dot[1]) \o s_tree_txt

\* the include_tree argument left at its default, True
include_tree_always(separate) == TRUE

\* the include_tree argument main passes to combine_files
include_tree_arg(separate) == ~separate

\* open(p, "w") can create or truncate p
can_create(p) == isdir(dirname(p)) /\ ~isdir(p)

\* the file system after open(p, "w") and a write of content
written(p, content) ==
    [q \in DOMAIN disk \cup {p} |-> IF q = p THEN content ELSE disk[q]]

\* the paths, relative to the project directory, the project may hold
Candidates ==
    {s_a_py, s_ab_py, s_b_txt, s_gitignore, join(s_a, s_x_py), join(s_sub, s_c_py),
     join(s_venv, s_ignored_py), join(join(s_venv, s_sub), s_c_py),
     join(join(s_sub, s_venv), s_c_py)}

\* the exclusion sets tried: the default of --exclude, and one given with -e
DefaultExclude == {s_venv, s_pycache, s_resources, s_git, s_gitignore}

ExcludeChoices == {DefaultExclude, {s_sub, s_a_py}}

\* the state after main has read its arguments (the configuration is printed)
Init ==
    /\ \E arg \in {s_proj, s_venv_proj, s_nope} :
         /\ project_path = abspath(arg)
         /\ \E chosen \in SUBSET Candidates :
              /\ Cardinality(chosen) <= MaxFiles
              /\ arg = s_nope => chosen = {}
              /\ files = {join(project_path, c) : c \in chosen}
    /\ denied \in {{}} \cup {{d} : d \in {join(project_path, s_sub)} \cap Dirs}
    /\ output_file \in {s_out_txt, s_proj_out_txt, s_od_out}
    /\ exclude_items \in ExcludeChoices
    /\ file_types \in {{}, {s_dot_py}}
    /\ separate_tree \in BOOLEAN
    /\ pc = "check_path"
    /\ tree_content = <<>>
    /\ file_paths = <<>>
    /\ unreadable = {}
    /\ combined_content = <<>>
    /\ disk = [q \in {} |-> <<>>]
    /\ exit_status = 0
    /\ message = "none"

\* if not os.path.exists(project_path): print the error, sys.exit(1)
CheckPath ==
    /\ pc = "check_path"
    /\ IF exists(project_path)
       THEN /\ pc' = "generate_tree"
            /\ UNCHANGED <<exit_status, message>>
       ELSE /\ pc' = "exit"
            /\ exit_status' = 1
            /\ message' = "Error: Path does not exist"
    /\ UNCHANGED <<files, denied, project_path, output_file, exclude_items,
                   file_types, separate_tree, tree_content, file_paths,
                   unreadable, combined_content, disk>>

\* tree_content = generate_tree(project_path, exclude_items, file_types)
GenerateTree ==
    /\ pc = "generate_tree"
    /\ tree_content' = generate_tree(project_path, exclude_items, file_types)
    /\ pc' = IF separate_tree THEN "save_tree" ELSE "scan"
    /\ UNCHANGED <<files, denied, project_path, output_file, exclude_items,
                   file_types, separate_tree, file_paths, unreadable,
                   combined_content, disk, exit_status, message>>

\* if separate_tree: open and write the tree file, outside any try: an
\* OSError of open or write ends the run with a traceback and status 1
SaveTree ==
    /\ pc = "save_tree"
    /\ LET tree_file == tree_file_name(output_file)
       IN  \E ok \in BOOLEAN :
             IF ok /\ can_create(abspath(tree_file))
             THEN /\ files' = files \cup {abspath(tree_file)}
                  /\ disk' = written(abspath(tree_file), tree_content)
                  /\ pc' = "scan"
                  /\ UNCHANGED <<exit_status, message>>
             ELSE /\ pc' = "crash"
                  /\ exit_status' = 1
                  /\ message' = "Traceback"
                  /\ UNCHANGED <<files, disk>>
    /\ UNCHANGED <<denied, project_path, output_file, exclude_items, file_types,
                   separate_tree, tree_content, file_paths, unreadable,
                   combined_content>>

\* file_paths = scan_directory(...); if not file_paths: warn, sys.exit(1)
Scan ==
    /\ pc = "scan"
    /\ file_paths' = scan_directory(project_path, exclude_items, file_types)
    /\ IF file_paths' = <<>>
       THEN /\ pc' = "exit"
            /\ exit_status' = 1
            /\ message' = "Warning: No matching files found!"
       ELSE /\ pc' = "combine"
            /\ UNCHANGED <<exit_status, message>>
    /\ UNCHANGED <<files, denied, project_path, output_file, exclude_items,
                   file_types, separate_tree, tree_content, unreadable,
                   combined_content, disk>>

\* combined_content = combine_files(...); any of the files may fail to read
Combine ==
    /\ pc = "combine"
    /\ \E bad \in SUBSET {file_paths[i][1] : i \in 1..Len(file_paths)} :
         /\ unreadable' = bad
         /\ combined_content' =
                combine_files(file_paths, project_path, tree_content,
                              exclude_items, file_types,
                              include_tree_arg(separate_tree), bad)
    /\ pc' = "save_output"
    /\ UNCHANGED <<files, denied, project_path, output_file, exclude_items,
                   file_types, separate_tree, tree_content, file_paths, disk,
                   exit_status, message>>

\* try: open and write the output file; except: print the error, sys.exit(1)
SaveOutput ==
    /\ pc = "save_output"
    /\ \E ok \in BOOLEAN :
         IF ok /\ can_create(abspath(output_file))
         THEN /\ files' = files \cup {abspath(output_file)}
              /\ disk' = written(abspath(output_file), combined_content)
              /\ pc' = "done"
              /\ UNCHANGED <<exit_status, message>>
         ELSE /\ pc' = "exit"
              /\ exit_status' = 1
              /\ message' = "Error writing to output file"
              /\ UNCHANGED <<files, disk>>
    /\ UNCHANGED <<denied, project_path, output_file, exclude_items, file_types,
                   separate_tree, tree_content, file_paths, unreadable,
                   combined_content>>

Next == CheckPath \/ GenerateTree \/ SaveTree \/ Scan \/ Combine \/ SaveOutput

Spec == Init /\ [][Next]_vars

(* ------------------- notions the properties are about ------------------ *)

\* the files below the project directory
ProjectFiles == {f \in files : startswith(f, project_path \o <<os_sep>>)}

\* the segments of the path of f relative to the project directory
RelSegs(f) == split(From(f, Len(project_path) + 2), os_sep)

\* the path of f relative to the project directory
RelPath(f) == From(f, Len(project_path) + 2)

\* some directory segment of the relative path of f is in the exclusion set
HasExcludedDir(f) ==
    \E i \in 1..(Len(RelSegs(f)) - 1) : RelSegs(f)[i] \in exclude_items

\* every directory from the project directory down to f may be listed
Listable(f) ==
    \A a \in Ancestors(f) :
        (a = project_path \/ startswith(a, project_path \o <<os_sep>>)) => a \notin denied

\* the file list of scan_directory, as sets
ScannedAbs == {file_paths[i][1] : i \in 1..Len(file_paths)}

ScannedRel == {file_paths[i][2] : i \in 1..Len(file_paths)}

\* the lines of the tree below its title, and the paths they are about
TreeLineIdx == {i \in 1..Len(tree_content) : "current" \in DOMAIN tree_content[i]}

TreePaths == {tree_content[i].current : i \in TreeLineIdx}

TreePos(f) == CHOOSE i \in TreeLineIdx : tree_content[i].current = f

\* the indexes of the combined content of a kind
Idx(kind) == {i \in 1..Len(combined_content) : combined_content[i].kind = kind}

\* the file blocks of the combined content, by the index of their header
OutPos(f) == CHOOSE i \in Idx("file_header") : combined_content[i].rel = RelPath(f)

InOutput(f) == \E i \in Idx("file_header") : combined_content[i].rel = RelPath(f)

\* scan_directory has returned and nothing was written since
Scanned == pc \in {"combine", "save_output"}
           \/ (pc = "exit" /\ message = "Warning: No matching files found!")

\* combine_files has returned
Combined == pc \in {"save_output", "done"}
            \/ (pc = "exit" /\ message = "Error writing to output file")

(* -------------------------------- C1 ---------------------------------- *)

\* C1: a file with an excluded directory segment in its path relative to the
\* project directory is never in the tree of generate_tree, never in the
\* file list of scan_directory and never in the combined content, whatever
\* its name, its extension and its depth below the excluded directory.
C1_ExcludedDirPruned ==
    \A f \in ProjectFiles :
        HasExcludedDir(f) =>
            /\ f \notin TreePaths
            /\ f \notin ScannedAbs
            /\ RelPath(f) \notin ScannedRel
            /\ ~InOutput(f)
            /\ \A i \in Idx("content") : combined_content[i].of # f

\* a run that wrote its output for a project that holds a file two levels
\* below an excluded directory, whose name passes the file filters
C1_Witness ==
    /\ pc = "done"
    /\ Len(tree_content) > 1
    /\ \E f \in ProjectFiles :
         /\ HasExcludedDir(f)
         /\ Len(RelSegs(f)) >= 3
         /\ RelSegs(f)[1] \in exclude_items
         /\ ~should_skip_file(basename(f), exclude_items)
         /\ is_included_file(basename(f), file_types)

(* -------------------------------- C2 ---------------------------------- *)

\* the files scan_directory is to collect, by the three conditions of C2
C2_Expected ==
    {f \in ProjectFiles :
        /\ Listable(f)
        /\ ~HasExcludedDir(f)
        /\ basename(f) \notin exclude_items
        /\ (file_types = {} \/ \E ext \in file_types : endswith(basename(f), ext))}

\* C2: scan_directory returns exactly the files below the project directory
\* with no excluded directory segment in their relative path, a name that is
\* not excluded and an extension the filter admits, wherever the project
\* directory lies.
C2_ScanExact == Scanned => ScannedAbs = C2_Expected

(* -------------------------------- C3 ---------------------------------- *)

\* C3: the file blocks of the combined content are in strictly ascending
\* lexicographic order of their relative paths.
C3_StrictlyAscending ==
    \A i, j \in Idx("file_header") :
        i < j => str_lt(combined_content[i].rel, combined_content[j].rel)

\* a combined content with three file blocks, one of a file in a directory
C3_Witness ==
    /\ pc = "done"
    /\ Cardinality(Idx("file_header")) >= 3
    /\ \E i \in Idx("file_header") : Positions(combined_content[i].rel, os_sep) # {}

(* -------------------------------- C4 ---------------------------------- *)

\* the paths the run writes to
OutputPath == abspath(output_file)

TreeFilePath == abspath(tree_file_name(output_file))

\* the indexes of a written content that open a "Project Structure" section
\* or embed a line of the tree
StructureIdx(content) ==
    {i \in 1..Len(content) :
        \/ content[i].kind = "comment"
        \/ (content[i].kind = "text" /\ content[i].text = "# Project Structure:")}

\* the lines of the tree a written content embeds, in their order
EmbeddedTree(content) ==
    LET is_comment(item) == item.kind = "comment"
        comments == SelectSeq(content, is_comment)
    IN  [i \in 1..Len(comments) |-> comments[i].line]

\* C4: a run that completes puts the tree in exactly one place. With
\* --separate-tree it writes two files, the combined file has no "Project
\* Structure" section and the tree file begins with the line "Directory
\* structure of: <path>"; without it no tree file is written and the whole
\* tree is embedded, as comment lines, before every file block.
C4_TreeInOnePlace ==
    pc = "done" =>
        IF separate_tree
        THEN /\ DOMAIN disk = {OutputPath, TreeFilePath}
             /\ OutputPath # TreeFilePath
             /\ StructureIdx(disk[OutputPath]) = {}
             /\ disk[TreeFilePath] = tree_content
             /\ DOMAIN disk[TreeFilePath][1] = {"title"}
             /\ disk[TreeFilePath][1].title = project_path
        ELSE /\ DOMAIN disk = {OutputPath}
             /\ \E i \in 1..Len(disk[OutputPath]) :
                    /\ disk[OutputPath][i].kind = "text"
                    /\ disk[OutputPath][i].text = "# Project Structure:"
             /\ EmbeddedTree(disk[OutputPath]) = tree_content
             /\ \A i \in StructureIdx(disk[OutputPath]) :
                    \A j \in 1..Len(disk[OutputPath]) :
                        disk[OutputPath][j].kind \in {"hashes", "file_header", "content"}
                            => i < j

\* a completed run with --separate-tree whose tree has entries
C4_Witness ==
    /\ pc = "done"
    /\ separate_tree
    /\ Len(tree_content) > 2
    /\ Cardinality(DOMAIN disk) = 2

\* a completed run without --separate-tree whose tree has entries
C4_WitnessEmbedded ==
    /\ pc = "done"
    /\ ~separate_tree
    /\ Len(tree_content) > 2
    /\ Cardinality(Idx("file_header")) >= 2

(* -------------------------------- C5 ---------------------------------- *)

\* C5: the run exits with a non-zero status and a message when the project
\* path does not exist, when no file matches or when the output file cannot
\* be written; no other error ends it: it goes on to write the combined
\* output and does not terminate abnormally.
C5_OnlyThreeFatalErrors ==
    /\ pc # "crash"
    /\ pc = "exit" =>
         /\ exit_status # 0
         /\ message \in {"Error: Path does not exist",
                         "Warning: No matching files found!",
                         "Error writing to output file"}
    /\ pc \notin {"exit", "crash"} => exit_status = 0

(* -------------------------------- C6 ---------------------------------- *)

\* the (abs_path, rel_path) pairs of the files that could be read, in the
\* order of file_paths
ReadablePaths ==
    LET readable(t) == t[1] \notin unreadable
    IN  SelectSeq(file_paths, readable)

\* the items of the combined content after its header and tree section
BlockItems ==
    LET n == 9 + (IF separate_tree THEN 0 ELSE 6 + Len(tree_content))
    IN  From(combined_content, n + 1)

\* C6: combine_files writes one complete block (banner of 80 '#', header
\* with the relative path, banner, content, separator) for each file it
\* could read, in the order of its input, and nothing at all for a file it
\* could not read; a failure does not stop the files after it.
C6_SkipUnreadable ==
    Combined =>
        /\ Len(BlockItems) = 5 * Len(ReadablePaths)
        /\ \A k \in 1..Len(ReadablePaths) :
             LET b == SubSeq(BlockItems, 5 * k - 4, 5 * k)
             IN  /\ b[1].kind = "hashes" /\ b[1].width = 80
                 /\ b[2].kind = "file_header" /\ b[2].rel = ReadablePaths[k][2]
                 /\ b[3].kind = "hashes" /\ b[3].width = 80
                 /\ b[4].kind = "content" /\ b[4].of = ReadablePaths[k][1]
                 /\ b[5].kind = "text" /\ b[5].text = "\n"
        /\ \A i \in 1..Len(file_paths) :
             file_paths[i][1] \in unreadable =>
                /\ \A j \in Idx("file_header") : combined_content[j].rel # file_paths[i][2]
                /\ \A j \in Idx("content") : combined_content[j].of # file_paths[i][1]

\* a file that cannot be read is followed, in file_paths, by one that can,
\* and the run wrote its output
C6_Witness ==
    /\ pc = "done"
    /\ \E i, j \in 1..Len(file_paths) :
         /\ i < j
         /\ file_paths[i][1] \in unreadable
         /\ file_paths[j][1] \notin unreadable

(* -------------------------------- C7 ---------------------------------- *)

\* C7: with --separate-tree the tree file lies in the directory of the
\* output file, its name is the base name of the output file without its
\* final extension followed by "_tree.txt", and it is not the output file.
C7_TreeFileIsSibling ==
    TreeFilePath \in DOMAIN disk =>
        /\ dirname(TreeFilePath) = dirname(OutputPath)
        /\ basename(TreeFilePath)
             = rsplit1_head(basename(OutputPath), s_dot[1]) \o s_tree_txt
        /\ TreeFilePath # OutputPath

(* -------------------------------- C8 ---------------------------------- *)

\* C8: in one run the tree and the file list describe the same files: a
\* file below the project directory has a line in the tree if and only if
\* scan_directory collected it.
C8_TreeMatchesScan ==
    Scanned => \A f \in ProjectFiles : f \in TreePaths <=> f \in ScannedAbs

(* -------------------------------- C9 ---------------------------------- *)

\* the files that have both a line in the tree and a block in the output
InBoth == {f \in ProjectFiles : f \in TreePaths /\ InOutput(f)}

\* C9 as claimed: of two matched files, the one that comes first in the tree
\* comes first in the combined output.
C9_SameOrderAsTree ==
    Combined =>
        \A f, g \in InBoth : TreePos(f) < TreePos(g) => OutPos(f) < OutPos(g)

\* the first segment at which the relative paths of two files differ
FirstDiff(f, g) ==
    SetMin({i \in 1..Min(Len(RelSegs(f)), Len(RelSegs(g))) : RelSegs(f)[i] # RelSegs(g)[i]})

\* f lies in a directory whose name the path of g extends, at the same
\* place, by a character that sorts before the path separator (f = a/x.py,
\* g = a.py)
DirNameExtended(f, g) ==
    LET i == FirstDiff(f, g)
        d == RelSegs(f)[i]
        e == RelSegs(g)[i]
    IN  /\ i < Len(RelSegs(f))
        /\ Len(d) < Len(e)
        /\ SubSeq(e, 1, Len(d)) = d
        /\ e[Len(d) + 1] < os_sep

\* C9 as amended: of two matched files, the one that comes first in the tree
\* comes first in the combined output, except when the first lies in a
\* directory whose name the other path extends by a character that sorts
\* before the path separator: then the combined output has them the other
\* way round.
C9_SameOrderUnlessDirNameExtended ==
    Combined =>
        \A f, g \in InBoth :
            TreePos(f) < TreePos(g) =>
                IF DirNameExtended(f, g) THEN OutPos(g) < OutPos(f)
                                         ELSE OutPos(f) < OutPos(g)

\* the output holds a file in a directory and a file beside the directory
\* whose name extends the directory's, in the order of the tree (a/x.py,
\* ab.py), and another such pair in the opposite order (a/x.py, a.py)
C9_Witness ==
    /\ pc = "done"
    /\ \E f, g \in InBoth :
         /\ Len(RelSegs(f)) > 1
         /\ startswith(RelSegs(g)[1], RelSegs(f)[1])
         /\ TreePos(f) < TreePos(g)
         /\ ~DirNameExtended(f, g)
         /\ OutPos(f) < OutPos(g)
    /\ \E f, g \in InBoth :
         /\ TreePos(f) < TreePos(g)
         /\ DirNameExtended(f, g)

(* -------------------------------- C10 --------------------------------- *)

\* C10: a run that exits with a non-zero status before the combine step,
\* for a missing project path or for no matching file, has created or
\* modified no file, neither the combined output nor the tree file.
C10_NoFileOnEarlyExit ==
    (pc = "exit" /\ message \in {"Error: Path does not exist",
                                "Warning: No matching files found!"})
        => DOMAIN disk = {}

====
